---- MODULE Spec2Model ----
(***************************************************************************)
(* The two web servers of the repository as one state machine:             *)
(*   src/multithreaded_webserver_testing.py  (variant "mt")                *)
(*   src/socketwebserver.py                  (variant "st")                *)
(* Text and bytes are tuples of one-character strings; a byte that is not  *)
(* valid UTF-8 is the element BAD.                                         *)
(***************************************************************************)
EXTENDS Integers, Sequences, FiniteSets, TLC

\* ------------------------------------------------------------------ bounds

\* Connections the environment opens in one run.
MaxConn == 2

\* --------------------------------------------------------------- text tools

BAD == "\\xff"

\* Python's None where text is expected: the handler tests it with "not".
NoPath == <<>>

StartsWith(s, p) == Len(p) <= Len(s) /\ SubSeq(s, 1, Len(p)) = p

Drop(s, n) == SubSeq(s, n + 1, Len(s))

\* Index of the first element of s satisfying P, or Len(s) + 1.
FirstIndex(s, P(_)) ==
    IF \E i \in 1..Len(s) : P(s[i])
    THEN CHOOSE i \in 1..Len(s) : P(s[i]) /\ \A j \in 1..(i - 1) : ~P(s[j])
    ELSE Len(s) + 1

RECURSIVE SplitChar(_, _)
\* str.split(ch) for a one-character separator.
SplitChar(s, ch) ==
    LET i == FirstIndex(s, LAMBDA x : x = ch)
    IN  IF i > Len(s) THEN <<s>>
        ELSE <<SubSeq(s, 1, i - 1)>> \o SplitChar(Drop(s, i), ch)

RECURSIVE JoinChar(_, _)
\* ch.join(parts)
JoinChar(parts, ch) ==
    IF parts = <<>> THEN <<>>
    ELSE IF Len(parts) = 1 THEN parts[1]
    ELSE parts[1] \o <<ch>> \o JoinChar(Tail(parts), ch)

\* bytes.decode(errors="ignore"): undecodable bytes are dropped.
DecodeIgnore(b) == SelectSeq(b, LAMBDA x : x # BAD)

\* request_data.split("\r\n")[0]
FirstCRLFLine(s) ==
    IF \E i \in 1..(Len(s) - 1) : s[i] = "\r" /\ s[i + 1] = "\n"
    THEN LET i == CHOOSE i \in 1..(Len(s) - 1) :
                      /\ s[i] = "\r" /\ s[i + 1] = "\n"
                      /\ \A j \in 1..(i - 1) : ~(s[j] = "\r" /\ s[j + 1] = "\n")
         IN  SubSeq(s, 1, i - 1)
    ELSE s

\* (request_data.splitlines() or [""])[0]: a line ends at \n, \r or \r\n.
FirstSplitLine(s) ==
    SubSeq(s, 1, FirstIndex(s, LAMBDA x : x \in {"\r", "\n"}) - 1)

IsSpace(c) == c \in {" ", "\t", "\n", "\r"}

RECURSIVE SplitWS(_)
\* str.split() with no argument: runs of whitespace separate, no empty tokens.
SplitWS(s) ==
    IF s = <<>> THEN <<>>
    ELSE IF IsSpace(s[1]) THEN SplitWS(Tail(s))
    ELSE LET n == FirstIndex(s, IsSpace) - 1
         IN  <<SubSeq(s, 1, n)>> \o SplitWS(Drop(s, n))

RECURSIVE LStrip(_, _)
\* str.lstrip(ch): every leading ch is removed.
LStrip(s, ch) ==
    IF s # <<>> /\ s[1] = ch THEN LStrip(Tail(s), ch) ELSE s

\* The escapes urllib.parse.unquote is exercised with here.
HexTable ==
    (<<"2", "e">> :> ".") @@ (<<"2", "E">> :> ".") @@
    (<<"2", "f">> :> "/") @@ (<<"2", "F">> :> "/") @@
    (<<"3", "f">> :> "?") @@ (<<"3", "F">> :> "?")

RECURSIVE unquote(_)
\* urllib.parse.unquote: %XX becomes the character, anything else stays.
unquote(s) ==
    IF s = <<>> THEN <<>>
    ELSE IF s[1] = "%" /\ Len(s) >= 3 /\ <<s[2], s[3]>> \in DOMAIN HexTable
    THEN <<HexTable[<<s[2], s[3]>>]>> \o unquote(Drop(s, 3))
    ELSE <<s[1]>> \o unquote(Tail(s))

\* os.path.join(a, b) on POSIX.
PathJoin(a, b) ==
    IF b # <<>> /\ b[1] = "/" THEN b
    ELSE IF a = <<>> \/ a[Len(a)] = "/" THEN a \o b
    ELSE a \o <<"/">> \o b

RECURSIVE NormComps(_, _, _)
\* The loop of posixpath.normpath over the components.
NormComps(comps, acc, rooted) ==
    IF comps = <<>> THEN acc
    ELSE LET c == Head(comps)
             dd == <<".", ".">>
         IN  IF c = <<>> \/ c = <<".">> THEN NormComps(Tail(comps), acc, rooted)
             ELSE IF c # dd \/ (~rooted /\ acc = <<>>)
                               \/ (acc # <<>> /\ acc[Len(acc)] = dd)
             THEN NormComps(Tail(comps), Append(acc, c), rooted)
             ELSE IF acc # <<>>
             THEN NormComps(Tail(comps), SubSeq(acc, 1, Len(acc) - 1), rooted)
             ELSE NormComps(Tail(comps), acc, rooted)

\* posixpath.normpath
normpath(path) ==
    IF path = <<>> THEN <<".">>
    ELSE LET slashes == IF ~StartsWith(path, <<"/">>) THEN 0
                        ELSE IF StartsWith(path, <<"/", "/">>)
                                /\ ~StartsWith(path, <<"/", "/", "/">>) THEN 2
                        ELSE 1
             body == JoinChar(NormComps(SplitChar(path, "/"), <<>>, slashes > 0), "/")
             out == [i \in 1..slashes |-> "/"] \o body
         IN  IF out = <<>> THEN <<".">> ELSE out

\* ------------------------------------------------------------- file system

\* File names, as text.
N_r == <<"r">>
N_w == <<"w">>
N_wx == <<"w", "x">>
N_d == <<"d">>
N_l == <<"l">>
N_a == <<"a", ".", "t", "x", "t">>
N_b == <<"b", ".", "t", "x", "t">>
N_u == <<"u", ".", "t", "x", "t">>
N_k == <<"k", ".", "t", "x", "t">>
N_s == <<"s", ".", "t", "x", "t">>
N_p == <<"p", ".", "p", "n", "g">>
N_n == <<"n", ".", "t", "x", "t">>

\* "webservertesting.html", the default page of both servers.
DefaultDoc ==
    <<"w","e","b","s","e","r","v","e","r","t","e","s","t","i","n","g",".","h","t","m","l">>

\* WEB_ROOT = os.getcwd(): the directory /r/w, which is also the working
\* directory the single-threaded server opens relative paths in.
WEB_ROOT == <<"/", "r", "/", "w">>

\* The same directory as a tuple of components.
RootDir == <<N_r, N_w>>

\* The directories on disk: /, /r, /r/w, /r/w/d and the sibling /r/wx.
Dirs == { <<>>, <<N_r>>, RootDir, RootDir \o <<N_d>>, <<N_r, N_wx>> }

\* Symbolic links: /r/w/l -> /r/k.txt.
Links == (RootDir \o <<N_l>>) :> <<N_r, N_k>>

\* Regular files and their bytes.
FileData ==
    ((RootDir \o <<DefaultDoc>>) :> <<"<", "p", ">", "\n">>) @@
    ((RootDir \o <<N_a>>) :> <<"a", "\r", "\n", "b">>) @@
    ((RootDir \o <<N_b>>) :> <<"b", BAD>>) @@
    ((RootDir \o <<N_u>>) :> <<"u">>) @@
    ((RootDir \o <<N_p>>) :> <<BAD, "P", "\r", "\n">>) @@
    (<<N_r, N_k>> :> <<"k">>) @@
    (<<N_r, N_wx, N_s>> :> <<"s">>)

\* Files whose mode lets the server process not read them.
Unreadable == { RootDir \o <<N_u>> }

\* Files another process may unlink while the server runs.
Removable == { RootDir \o <<N_a>> }

Parent(dir) == IF dir = <<>> THEN <<>> ELSE SubSeq(dir, 1, Len(dir) - 1)

RECURSIVE Walk(_, _, _)
\* The kernel's path walk from directory cur: "." and "" stay, ".." goes up,
\* a symbolic link is followed, a missing name or a non-directory on the way
\* gives nothing.  The result is the set holding the node reached, or {}.
\* gone is the set of files unlinked so far.
Walk(cur, comps, gone) ==
    IF comps = <<>> THEN {cur}
    ELSE IF cur \notin Dirs THEN {}
    ELSE LET c == Head(comps)
             n == Append(cur, c)
         IN  IF c = <<>> \/ c = <<".">> THEN Walk(cur, Tail(comps), gone)
             ELSE IF c = <<".", ".">> THEN Walk(Parent(cur), Tail(comps), gone)
             ELSE IF n \in DOMAIN Links THEN Walk(Links[n], Tail(comps), gone)
             ELSE IF n \in Dirs \/ (n \in DOMAIN FileData /\ n \notin gone)
             THEN Walk(n, Tail(comps), gone)
             ELSE {}

\* The node a path names, absolute or relative to the working directory.
Lookup(path, gone) ==
    IF path = <<>> THEN {}
    ELSE Walk(IF path[1] = "/" THEN <<>> ELSE RootDir, SplitChar(path, "/"), gone)

\* os.path.isfile
isfile(path, gone) == \E n \in Lookup(path, gone) : n \in DOMAIN FileData

\* Whether node lies in the served directory (the root itself or below it).
InsideRoot(node) == StartsWith(node, RootDir)

\* open(path, "rb").read(): the bytes, or the OSError open raises.
ReadBinary(path, gone) ==
    LET found == { n \in Lookup(path, gone) : n \in DOMAIN FileData /\ n \notin Unreadable }
    IN  IF found = {}
        THEN [ok |-> FALSE, exc |-> "OSError", node |-> <<>>, data |-> <<>>]
        ELSE LET node == CHOOSE n \in found : TRUE
             IN  [ok |-> TRUE, exc |-> "", node |-> node, data |-> FileData[node]]

RECURSIVE UniversalNewlines(_)
\* Text-mode reading translates \r\n and \r to \n.
UniversalNewlines(s) ==
    IF s = <<>> THEN <<>>
    ELSE IF s[1] = "\r" /\ Len(s) >= 2 /\ s[2] = "\n"
    THEN <<"\n">> \o UniversalNewlines(Drop(s, 2))
    ELSE IF s[1] = "\r" THEN <<"\n">> \o UniversalNewlines(Tail(s))
    ELSE <<s[1]>> \o UniversalNewlines(Tail(s))

\* open(path, "r", encoding="utf-8").read().encode("utf-8")
ReadText(path, gone) ==
    LET r == ReadBinary(path, gone)
    IN  IF ~r.ok THEN r
        ELSE IF \E i \in 1..Len(r.data) : r.data[i] = BAD
        THEN [ok |-> FALSE, exc |-> "UnicodeDecodeError", node |-> r.node, data |-> <<>>]
        ELSE [r EXCEPT !.data = UniversalNewlines(r.data)]

\* The extension of the last component: from its last dot, a leading dot apart.
Extension(path) ==
    LET parts == SplitChar(path, "/")
        base == parts[Len(parts)]
        dots == { i \in 2..Len(base) : base[i] = "." }
    IN  IF dots = {} THEN <<>>
        ELSE Drop(base, (CHOOSE i \in dots : \A j \in dots : j <= i) - 1)

\* mimetypes.guess_type(path)[0] as <<type, subtype>>, <<>> when unknown.
guess_type(path) ==
    LET ext == Extension(path)
    IN  IF ext = <<".", "h", "t", "m", "l">> THEN <<"text", "html">>
        ELSE IF ext = <<".", "t", "x", "t">> THEN <<"text", "plain">>
        ELSE IF ext = <<".", "p", "n", "g">> THEN <<"image", "png">>
        ELSE <<>>

\* The fallback for a type mimetypes does not know.
OrOctetStream(g) == IF g = <<>> THEN <<"application", "octet-stream">> ELSE g

\* Text types get the charset parameter.
WithCharset(t) == IF t[1] = "text" THEN Append(t, "charset=utf-8") ELSE t

\* The Content-Type both servers derive from a path: lines 81-85 of the
\* multithreaded server, lines 75-81 of the single-threaded one.
ContentType(path) == WithCharset(OrOctetStream(guess_type(path)))

\* ------------------------------------------------------------ path resolver

\* safe_path with the default page already substituted.
SafeJoin(raw) ==
    LET safe == normpath(PathJoin(WEB_ROOT, raw))
    IN  IF ~StartsWith(safe, WEB_ROOT) THEN NoPath ELSE safe

\* safe_path(url_path) of the multithreaded server.
safe_path(url_path) ==
    LET raw == LStrip(unquote(SplitChar(url_path, "?")[1]), "/")
    IN  SafeJoin(IF raw = <<>> THEN DefaultDoc ELSE raw)

\* The single-threaded server's path handling, lines 67-72.
st_filepath(path) ==
    LET p == IF path = <<"/">> THEN <<"/">> \o DefaultDoc ELSE path
    IN  SplitChar(LStrip(p, "/"), "?")[1]

\* ---------------------------------------------------------------- requests

GET == <<"G", "E", "T">>
POST == <<"P", "O", "S", "T">>
HTTP11 == <<"H", "T", "T", "P", "/", "1", ".", "1">>
CRLF == <<"\r", "\n">>

\* The bytes of a request with request line "m p v" and no header lines.
RequestBytes(m, p, v) == m \o <<" ">> \o p \o <<" ">> \o v \o CRLF \o CRLF

\* Request paths sent with GET.
GetPaths ==
    { <<"/">>,
      <<"/", "?", "x">>,
      <<"/", "/">>,
      <<"/">> \o N_a,
      <<"/", "/">> \o N_a,
      <<"/">> \o N_b,
      <<"/">> \o N_p,
      <<"/">> \o N_u,
      <<"/">> \o N_n,
      <<"/">> \o N_d,
      <<"/">> \o N_l,
      <<"/", ".", ".", "/">> \o N_k,
      <<"/", "%", "2", "e", "%", "2", "e", "%", "2", "f">> \o N_k,
      <<"/", ".", ".", "/">> \o N_wx \o <<"/">> \o N_s }

\* Request paths sent with POST.
PostPaths ==
    { <<"/">> \o N_a, <<"/">> \o N_n, <<"/", ".", ".", "/">> \o N_k }

\* Requests whose request line has not three tokens, or no decodable byte.
OddRequests ==
    { CRLF,
      GET \o CRLF,
      GET \o <<" ", "/">> \o N_a \o CRLF,
      POST \o <<" ", "/">> \o N_a \o CRLF,
      GET \o <<" ", "/">> \o N_a \o <<" ">> \o HTTP11 \o <<" ", "x">> \o CRLF,
      <<BAD>> }

\* Every request examined: what one client may send on its connection
\* (recv returns it in one piece).
AllRequests ==
    { RequestBytes(GET, p, HTTP11) : p \in GetPaths }
        \cup { RequestBytes(POST, p, HTTP11) : p \in PostPaths }
        \cup OddRequests

\* The requests of the clients that connect side by side.
Requests ==
    { RequestBytes(GET, <<"/">> \o N_a, HTTP11),
      RequestBytes(GET, <<"/">> \o N_b, HTTP11),
      RequestBytes(GET, <<"/">> \o N_u, HTTP11),
      RequestBytes(POST, <<"/">> \o N_a, HTTP11),
      GET \o CRLF }

\* http_date() as handler i reads it: an opaque clock reading, and the
\* readings of two handlers are never taken to be equal.
http_date(i) == <<"date", i>>

\* --------------------------------------------------------------- responses

R400 == <<"B","a","d"," ","R","e","q","u","e","s","t">>
R404 == <<"N","o","t"," ","F","o","u","n","d">>
R405 == <<"M","e","t","h","o","d"," ","N","o","t"," ","A","l","l","o","w","e","d">>
R500 == <<"I","n","t","e","r","n","a","l"," ","S","e","r","v","e","r"," ","E","r","r","o","r">>
ROK == <<"O", "K">>

\* str(code) for the status codes in use.
CodeText(code) ==
    CASE code = 200 -> <<"2", "0", "0">>
      [] code = 400 -> <<"4", "0", "0">>
      [] code = 404 -> <<"4", "0", "4">>
      [] code = 405 -> <<"4", "0", "5">>
      [] code = 500 -> <<"5", "0", "0">>

ErrOpen == <<"<","h","t","m","l",">","<","b","o","d","y",">","<","h","1",">">>
ErrClose == <<"<","/","h","1",">","<","/","b","o","d","y",">","<","/","h","t","m","l",">">>

\* No response under construction.
NoOut == [code |-> 0, reason |-> <<>>, headers |-> <<>>, body |-> <<>>]

\* The length of the decoded text instead of the length of the bytes.
ContentLengthOfText(body) == Len(DecodeIgnore(body))

\* len(body) as send_error and the 200 branch put it in Content-Length.
ContentLength(body) == Len(body)

\* send_error(sock, code, reason, headers): the message it builds.
ErrorResponse(code, reason, extra, date) ==
    LET body == ErrOpen \o CodeText(code) \o <<" ">> \o reason \o ErrClose
    IN  [code |-> code, reason |-> reason,
         headers |-> << <<"Date", date>>,
                        <<"Server", "CS538Toy/1.0">>,
                        <<"Content-Type", <<"text", "html", "charset=utf-8">> >>,
                        <<"Content-Length", ContentLength(body)>>,
                        <<"Connection", "close">> >> \o extra,
         body |-> body]

\* OkResponse with the clock reading of the handler in the Server header too.
OkResponseStamped(ctype, content, date) ==
    [code |-> 200, reason |-> ROK,
     headers |-> << <<"Date", date>>,
                    <<"Server", date>>,
                    <<"Content-Type", ctype>>,
                    <<"Content-Length", ContentLength(content)>>,
                    <<"Connection", "close">> >>,
     body |-> content]

\* The 200 response of the multithreaded server, lines 91-104.
OkResponse(ctype, content, date) ==
    [code |-> 200, reason |-> ROK,
     headers |-> << <<"Date", date>>,
                    <<"Server", "CS538Toy/1.0">>,
                    <<"Content-Type", ctype>>,
                    <<"Content-Length", ContentLength(content)>>,
                    <<"Connection", "close">> >>,
     body |-> content]

\* The 200 response of the single-threaded server, lines 94-105.
StOkResponse(ctype, content) ==
    [code |-> 200, reason |-> ROK,
     headers |-> << <<"Content-Type", ctype>>,
                    <<"Content-Length", ContentLength(content)>>,
                    <<"Connection", "close">> >>,
     body |-> content]

St404Body ==
    <<"<","h","t","m","l",">","<","b","o","d","y",">","<","h","1",">","4","0","4"," ",
      "N","o","t"," ","F","o","u","n","d","<","/","h","1",">","<","p",">","T","h","e"," ",
      "r","e","q","u","e","s","t","e","d"," ","f","i","l","e"," ","w","a","s"," ","n","o",
      "t"," ","f","o","u","n","d"," ","o","n"," ","t","h","e"," ","s","e","r","v","e","r",
      ".","<","/","p",">","<","/","b","o","d","y",">","<","/","h","t","m","l",">">>

\* The 404 response of the single-threaded server, lines 112-120.
St404Response ==
    [code |-> 404, reason |-> R404,
     headers |-> << <<"Content-Type", <<"text", "html", "charset=utf-8">> >>,
                    <<"Content-Length", ContentLength(St404Body)>>,
                    <<"Connection", "close">> >>,
     body |-> St404Body]

\* ------------------------------------------------------------------- state

VARIABLES
    variant,    \* which program runs: "mt" (one thread per connection) or "st"
    acceptor,   \* the accept loop: "accept", "handling" (st only),
                \* "accept_error" or "handler_error" once an exception ended it
    conn,       \* per connection: the handler's position, socket and history
    removed     \* the files unlinked since the server started

vars == <<variant, acceptor, conn, removed>>

Conns == 1..MaxConn

\* A connection no client has opened yet.
\*   pc      the handler's position ("new" before accept, "done" after finally)
\*   sock    the client socket: "none", "open" or "closed"
\*   req     the bytes recv returned
\*   out     the response being sent
\*   wire    the sendall calls made, in order, each with its outcome
\*   opened  the file whose bytes were read for a 200 response
\*   touched whether a path was resolved or a file accessed
\*   miss    why no file was served: "rejected", "notfile" or "openfail"
\*   rfail   whether recv raised
\*   exc     the exception that left the handler uncaught
NewConn ==
    [pc |-> "new", sock |-> "none", req |-> <<>>, out |-> NoOut, wire |-> <<>>,
     opened |-> {}, touched |-> FALSE, miss |-> "", rfail |-> FALSE, exc |-> ""]

Init ==
    /\ variant \in {"mt", "st"}
    /\ acceptor = "accept"
    /\ conn = [i \in Conns |-> NewConn]
    /\ removed = {}

\* Every byte string recv returns in some specification.
Inputs == AllRequests \cup Requests \cup {<<>>}

\* The sets of unlinked files the disk can be in.
Disks == SUBSET Removable

\* f as an explicit table, so that its values are computed once and looked up.
Table(f) == f @@ <<>>

\* What handle_client makes of each input, computed once per input: the
\* decoded text and the tokens of the request line (lines 47-61), the path
\* safe_path returns for a request line of three tokens (line 75), the isfile
\* test (line 76), the content type (lines 81-85) and the read (lines 88-89).
MtLine ==
    Table([r \in Inputs |->
              [data |-> DecodeIgnore(r),
               parts |-> SplitWS(FirstCRLFLine(DecodeIgnore(r)))]])

MtFilepath ==
    Table([r \in Inputs |->
              IF Len(MtLine[r].parts) = 3 THEN safe_path(MtLine[r].parts[2]) ELSE NoPath])

MtIsFile == Table([r \in Inputs, g \in Disks |-> isfile(MtFilepath[r], g)])

MtType == Table([r \in Inputs |-> ContentType(MtFilepath[r])])

MtRead == Table([r \in Inputs, g \in Disks |-> ReadBinary(MtFilepath[r], g)])

\* One sendall call as the wire records it; ok is FALSE when it raised, after
\* sending any part of its bytes.
HeadEntry(out, ok) ==
    [part |-> "head", code |-> out.code, headers |-> out.headers, data |-> <<>>, ok |-> ok]

BodyEntry(out, ok) ==
    [part |-> "body", code |-> out.code, headers |-> <<>>, data |-> out.body, ok |-> ok]

\* Finally without the close: the handler returns and the socket stays open.
FinallyLeak(c) == [c EXCEPT !.pc = "done", !.out = NoOut]

\* The finally clause: client_socket.close().
Finally(c) == [c EXCEPT !.pc = "done", !.sock = "closed", !.out = NoOut]

\* MtCatch without the except clause: the exception leaves handle_client
\* through the finally clause.
MtCatchEscapes(c, exc, date) == Finally([c EXCEPT !.exc = exc])

\* The multithreaded handler's except clauses, lines 109-114: an exception in
\* the try block leads to send_error(500); one raised by that call is dropped.
MtCatch(c, exc, date) ==
    IF c.pc \in {"xhead", "xbody"}
    THEN Finally(c)
    ELSE [c EXCEPT !.pc = "xhead", !.out = ErrorResponse(500, R500, <<>>, date)]

\* The single-threaded loop's "except IOError", lines 110-120: an OSError of
\* the try block leads to the 404 response; any other exception, and any
\* raised while sending the 404, leaves the loop after the finally clause.
StCatch(c, exc) ==
    IF exc = "OSError" /\ c.pc \in {"recv", "open", "head", "body"}
    THEN [c EXCEPT !.pc = "ehead", !.out = St404Response]
    ELSE Finally([c EXCEPT !.exc = exc])

\* Where an exception raised at c.pc takes the handler.
Raise(v, c, exc, date) ==
    IF v = "mt" THEN MtCatch(c, exc, date) ELSE StCatch(c, exc)

\* MtParse without the method test of lines 69-72.
MtParseAnyMethod(c, date) ==
    IF MtLine[c.req].data = <<>> THEN Finally(c)
    ELSE IF Len(MtLine[c.req].parts) # 3
    THEN [c EXCEPT !.pc = "ehead", !.out = ErrorResponse(400, R400, <<>>, date)]
    ELSE [c EXCEPT !.pc = "resolve"]

\* Lines 47-72 of handle_client: decode, empty check, request line, method.
MtParse(c, date) ==
    IF MtLine[c.req].data = <<>> THEN Finally(c)
    ELSE IF Len(MtLine[c.req].parts) # 3
    THEN [c EXCEPT !.pc = "ehead", !.out = ErrorResponse(400, R400, <<>>, date)]
    ELSE IF MtLine[c.req].parts[1] # GET
    THEN [c EXCEPT !.pc = "ehead",
                   !.out = ErrorResponse(405, R405, << <<"Allow", "GET">> >>, date)]
    ELSE [c EXCEPT !.pc = "resolve"]

\* Lines 75-78 of handle_client: safe_path and the isfile test.
MtResolve(c, gone, date) ==
    IF MtFilepath[c.req] = NoPath
    THEN [c EXCEPT !.touched = TRUE, !.pc = "ehead", !.miss = "rejected",
                   !.out = ErrorResponse(404, R404, <<>>, date)]
    ELSE IF ~MtIsFile[c.req, gone]
    THEN [c EXCEPT !.touched = TRUE, !.pc = "ehead", !.miss = "notfile",
                   !.out = ErrorResponse(404, R404, <<>>, date)]
    ELSE [c EXCEPT !.touched = TRUE, !.pc = "open"]

\* MtOpen with the request kept in a variable all threads share: the file
\* read is the one named by the request received last.
MtOpenShared(c, gone, date) ==
    LET last == CHOOSE j \in Conns :
                    /\ conn[j].pc \notin {"new", "recv"}
                    /\ \A k \in Conns : k > j => conn[k].pc \in {"new", "recv"}
        r == conn[last].req
    IN  IF MtRead[r, gone].ok
        THEN [c EXCEPT !.pc = "head", !.opened = {MtRead[r, gone].node},
                       !.out = OkResponse(MtType[r], MtRead[r, gone].data, date)]
        ELSE MtCatch([c EXCEPT !.miss = "openfail"], MtRead[r, gone].exc, date)

\* Lines 81-100 of handle_client: content type, read, response headers; a
\* failed read is an exception in the try block.
MtOpen(c, gone, date) ==
    IF MtRead[c.req, gone].ok
    THEN [c EXCEPT !.pc = "head", !.opened = {MtRead[c.req, gone].node},
                   !.out = OkResponse(MtType[c.req], MtRead[c.req, gone].data, date)]
    ELSE MtCatch([c EXCEPT !.miss = "openfail"], MtRead[c.req, gone].exc, date)

\* Lines 84-91 of the single-threaded loop: text files are read in text
\* mode, the others in binary mode.
StReadFile(ctype, filepath, gone) ==
    IF ctype[1] = "text" THEN ReadText(filepath, gone) ELSE ReadBinary(filepath, gone)

\* What the single-threaded loop makes of each input, computed once per
\* input: the decoded text and the three tokens of the request line, or
\* GET / HTTP/1.1 when it has another number of them (lines 46-63), the
\* sanitised path (lines 67-72), the content type (lines 75-81) and the read
\* (lines 84-91).
StLine ==
    Table([r \in Inputs |->
              [data |-> DecodeIgnore(r),
               tokens |-> IF Len(SplitWS(FirstSplitLine(DecodeIgnore(r)))) = 3
                          THEN SplitWS(FirstSplitLine(DecodeIgnore(r)))
                          ELSE <<GET, <<"/">>, HTTP11>>]])

StFilepath == Table([r \in Inputs |-> st_filepath(StLine[r].tokens[2])])

StType == Table([r \in Inputs |-> ContentType(StFilepath[r])])

StRead ==
    Table([r \in Inputs, g \in Disks |-> StReadFile(StType[r], StFilepath[r], g)])

\* StParse without the empty-request test of lines 49-50.
StParseNoEmptyTest(c) ==
    IF StLine[c.req].tokens[1] # GET THEN StCatch(c, "OSError")
    ELSE [c EXCEPT !.pc = "open"]

\* Lines 46-63 of the single-threaded loop: "continue" on an empty request
\* (the finally clause still runs), IOError for a method other than GET.
StParse(c) ==
    IF StLine[c.req].data = <<>> THEN Finally(c)
    ELSE IF StLine[c.req].tokens[1] # GET THEN StCatch(c, "OSError")
    ELSE [c EXCEPT !.pc = "open"]

\* Lines 67-100 of the single-threaded loop; a failed read is an exception
\* in the try block.
StOpen(c, gone) ==
    IF StRead[c.req, gone].ok
    THEN [c EXCEPT !.touched = TRUE, !.pc = "head", !.opened = {StRead[c.req, gone].node},
                   !.out = StOkResponse(StType[c.req], StRead[c.req, gone].data)]
    ELSE StCatch([c EXCEPT !.touched = TRUE, !.miss = "openfail"], StRead[c.req, gone].exc)

\* The accept loop once connection record c is as the handler left it: the
\* threads of the multithreaded server never touch it; the single-threaded
\* loop is back at accept after the finally clause, or ended by the exception.
LoopAfter(v, loop, c) ==
    IF v = "mt" \/ c.pc # "done" THEN loop
    ELSE IF c.exc # "" THEN "handler_error"
    ELSE "accept"

\* ----------------------------------------------------------------- actions

\* Handler i moves on to record c.
Update(i, c) ==
    /\ conn' = [conn EXCEPT ![i] = c]
    /\ acceptor' = LoopAfter(variant, acceptor, c)
    /\ UNCHANGED <<variant, removed>>

\* Accept with the handler called in the loop itself by both servers: the
\* loop is at the handler until it returns.
AcceptAndWait(i) ==
    /\ acceptor = "accept"
    /\ conn[i].pc = "new"
    /\ \A j \in 1..(i - 1) : conn[j].pc # "new"
    /\ conn' = [conn EXCEPT ![i].pc = "recv", ![i].sock = "open"]
    /\ acceptor' = "handling"
    /\ UNCHANGED <<variant, removed>>

\* accept() returns connection i; the multithreaded server starts its thread
\* and accepts on, the single-threaded one handles it in the loop itself.
Accept(i) ==
    /\ acceptor = "accept"
    /\ conn[i].pc = "new"
    /\ \A j \in 1..(i - 1) : conn[j].pc # "new"
    /\ conn' = [conn EXCEPT ![i].pc = "recv", ![i].sock = "open"]
    /\ acceptor' = IF variant = "st" THEN "handling" ELSE "accept"
    /\ UNCHANGED <<variant, removed>>

\* accept() (or Thread.start) raises while a client is connecting: neither
\* loop catches it.
AcceptError ==
    /\ acceptor = "accept"
    /\ \E i \in Conns : conn[i].pc = "new"
    /\ acceptor' = "accept_error"
    /\ UNCHANGED <<variant, conn, removed>>

\* client_socket.recv returns a request of R or no byte at all, and the
\* handler reads the request line; or recv raises an OSError.
Recv(i, R) ==
    /\ conn[i].pc = "recv"
    /\ \/ \E data \in R \cup {<<>>} :
              LET c == [conn[i] EXCEPT !.req = data]
              IN  Update(i, IF variant = "mt" THEN MtParse(c, http_date(i)) ELSE StParse(c))
       \/ Update(i, Raise(variant, [conn[i] EXCEPT !.rfail = TRUE], "OSError", http_date(i)))

\* The multithreaded handler maps the URL to a file path.
Resolve(i) ==
    /\ conn[i].pc = "resolve"
    /\ Update(i, MtResolve(conn[i], removed, http_date(i)))

\* The handler reads the file.
Open(i) ==
    /\ conn[i].pc = "open"
    /\ Update(i, IF variant = "mt" THEN MtOpen(conn[i], removed, http_date(i))
                 ELSE StOpen(conn[i], removed))

\* sendall of a header block: it is sent, or the call raises.
SendHead(i) ==
    /\ conn[i].pc \in {"head", "ehead", "xhead"}
    /\ \/ Update(i, [conn[i] EXCEPT !.wire = Append(@, HeadEntry(conn[i].out, TRUE)),
                                    !.pc = CASE @ = "head" -> "body"
                                             [] @ = "ehead" -> "ebody"
                                             [] @ = "xhead" -> "xbody"])
       \/ Update(i, Raise(variant,
                          [conn[i] EXCEPT !.wire = Append(@, HeadEntry(conn[i].out, FALSE))],
                          "OSError", http_date(i)))

\* sendall of a body: it is sent and the handler returns, or the call raises.
SendBody(i) ==
    /\ conn[i].pc \in {"body", "ebody", "xbody"}
    /\ \/ Update(i, Finally([conn[i] EXCEPT !.wire = Append(@, BodyEntry(conn[i].out, TRUE))]))
       \/ Update(i, Raise(variant,
                          [conn[i] EXCEPT !.wire = Append(@, BodyEntry(conn[i].out, FALSE))],
                          "OSError", http_date(i)))

\* Another process unlinks a file.
Unlink(f) ==
    /\ f \in Removable \ removed
    /\ removed' = removed \cup {f}
    /\ UNCHANGED <<variant, acceptor, conn>>

\* One step of connection i's handler, its client sending a request of R.
HandlerStep(i, R) ==
    \/ Recv(i, R)
    \/ Resolve(i)
    \/ Open(i)
    \/ SendHead(i)
    \/ SendBody(i)

\* The server with MaxConn clients, each sending a request of Requests.
Next ==
    \/ \E i \in Conns : Accept(i)
    \/ AcceptError
    \/ \E i \in Conns : HandlerStep(i, Requests)
    \/ \E f \in Removable : Unlink(f)

Spec == Init /\ [][Next]_vars

\* The blocking calls of a handler return and its thread is scheduled.
LiveSpec == Spec /\ \A i \in Conns : WF_vars(HandlerStep(i, Requests))

\* The server with one client, which sends any request of AllRequests.
NextAll ==
    \/ Accept(1)
    \/ AcceptError
    \/ HandlerStep(1, AllRequests)
    \/ \E f \in Removable : Unlink(f)

SpecAll == Init /\ [][NextAll]_vars

\* ------------------------------------------------------------------ claims

\* The handlers of the multithreaded server.
Mt(i) == variant = "mt" /\ conn[i].pc # "new"

\* The sendall calls of connection i that raised.
FailedSends(i) == { k \in DOMAIN conn[i].wire : ~conn[i].wire[k].ok }

\* The header blocks connection i sent in full.
SentHeads(i) ==
    { k \in DOMAIN conn[i].wire : conn[i].wire[k].part = "head" /\ conn[i].wire[k].ok }

\* The tokens of the request line as the text before the first CRLF gives them.
LineTokens(req) == SplitWS(FirstCRLFLine(DecodeIgnore(req)))

\* C1: in the multithreaded server the file read for a response is never
\* outside the root, and the path safe_path returns names nothing outside it.
C1_ServedInsideRoot ==
    \A i \in Conns :
        Mt(i) =>
            /\ \A n \in conn[i].opened : InsideRoot(n)
            /\ conn[i].touched =>
                   \A n \in Lookup(safe_path(LineTokens(conn[i].req)[2]), removed) :
                       InsideRoot(n)

\* C2: in both servers the socket of every accepted connection is
\* eventually closed by its handler, whatever exit path the handler takes.
C2_EventuallyClosed ==
    \A i \in Conns : (conn[i].sock = "open") ~> (conn[i].sock = "closed")

\* C2 witness: one connection closed after the silent abort of an empty
\* request, another closed after a sendall raised.
C2_Witness ==
    \E i, j \in Conns :
        /\ conn[i].sock = "closed" /\ conn[i].req = <<>> /\ ~conn[i].rfail
        /\ conn[j].sock = "closed" /\ FailedSends(j) # {}

\* The sendall call that follows connection i's first failure in the try
\* block: the first call when recv or the file read failed, else the one
\* after the first sendall that raised.
AfterFailure(i) ==
    IF conn[i].rfail \/ conn[i].miss = "openfail" THEN 1
    ELSE (CHOOSE k \in FailedSends(i) : \A m \in FailedSends(i) : k <= m) + 1

\* C3: in the multithreaded server a failure inside handle_client is caught
\* and answered with a 500 response, no exception leaves handle_client, the
\* accept loop is never ended by a handler, and every handler that has not
\* finished can take its next step whatever happened to the others.
C3_HandlerIsolation ==
    variant = "mt" =>
        /\ acceptor # "handler_error"
        /\ \A i \in Conns :
              /\ conn[i].exc = ""
              /\ conn[i].pc \in {"xhead", "xbody"} => conn[i].out.code = 500
              /\ conn[i].pc \notin {"new", "done"} => ENABLED HandlerStep(i, Requests)
              /\ (conn[i].pc = "done"
                    /\ (conn[i].rfail \/ conn[i].miss = "openfail" \/ FailedSends(i) # {})) =>
                     LET k == AfterFailure(i)
                         w == conn[i].wire
                     IN  /\ k <= Len(w)
                         /\ w[k].part = "head" /\ w[k].code = 500
                         /\ w[k].ok => /\ Len(w) = k + 1
                                       /\ w[k + 1].part = "body"
                                       /\ w[k + 1].code = 500

\* C3 witness: the read of an unreadable file failed and was answered with a
\* complete 500 response, and another connection got its 200 response.
C3_Witness ==
    /\ variant = "mt"
    /\ acceptor = "accept"
    /\ \E i, j \in Conns :
          /\ conn[i].pc = "done" /\ conn[i].miss = "openfail"
          /\ Len(conn[i].wire) = 2
          /\ conn[i].wire[1].code = 500 /\ conn[i].wire[1].ok /\ conn[i].wire[2].ok
          /\ conn[j].pc = "done" /\ Len(conn[j].wire) = 2
          /\ conn[j].wire[1].code = 200 /\ conn[j].wire[2].ok

\* C4: in the multithreaded server at most one status line is sent on a
\* connection, also when a send fails part-way through a response.
C4_OneStatusLine ==
    \A i \in Conns : Mt(i) => Cardinality(SentHeads(i)) <= 1

\* C5: in the multithreaded server no send is issued once recv or a send has
\* failed on the connection.
C5_NoSendAfterTransportFailure ==
    \A i \in Conns :
        Mt(i) =>
            /\ conn[i].rfail => conn[i].wire = <<>>
            /\ \A k \in FailedSends(i) : k = Len(conn[i].wire)

\* The values header block hs gives for the header called name.
Header(hs, name) == { hs[k][2] : k \in { j \in DOMAIN hs : hs[j][1] = name } }

\* Connection i's handler has read a request line of three tokens whose
\* method is not GET.
OtherMethod(i) ==
    /\ Mt(i) /\ conn[i].pc # "recv" /\ ~conn[i].rfail
    /\ Len(LineTokens(conn[i].req)) = 3
    /\ LineTokens(conn[i].req)[1] # GET

\* C6: in the multithreaded server a request line of three tokens with a
\* method other than GET has no path resolved and no file accessed, and the
\* first response the handler sends is a 405 with the header Allow: GET.
C6_MethodNotAllowed ==
    \A i \in Conns :
        OtherMethod(i) =>
            /\ ~conn[i].touched /\ conn[i].opened = {} /\ conn[i].miss = ""
            /\ conn[i].pc \notin {"resolve", "open", "head", "body"}
            /\ IF conn[i].wire = <<>>
               THEN /\ conn[i].pc = "ehead"
                    /\ conn[i].out.code = 405
                    /\ Header(conn[i].out.headers, "Allow") = {"GET"}
               ELSE /\ conn[i].wire[1].part = "head"
                    /\ conn[i].wire[1].code = 405
                    /\ Header(conn[i].wire[1].headers, "Allow") = {"GET"}
                    /\ conn[i].wire[1].ok =>
                           \/ conn[i].pc = "ebody" /\ conn[i].out.code = 405
                           \/ /\ Len(conn[i].wire) >= 2
                              /\ conn[i].wire[2].part = "body"
                              /\ conn[i].wire[2].code = 405

\* C6 witness: a POST for a path that escapes the root got its complete 405
\* response.
C6_Witness ==
    /\ OtherMethod(1)
    /\ conn[1].req = RequestBytes(POST, <<"/", ".", ".", "/">> \o N_k, HTTP11)
    /\ conn[1].pc = "done" /\ Len(conn[1].wire) = 2
    /\ conn[1].wire[1].code = 405 /\ conn[1].wire[1].ok /\ conn[1].wire[2].ok

\* C7: in the multithreaded server a request of at least one byte whose
\* first line does not have exactly three tokens is answered with a 400 and
\* no file is resolved or read for it.
C7_MalformedGets400 ==
    \A i \in Conns :
        (Mt(i) /\ conn[i].pc = "done" /\ conn[i].req # <<>>
              /\ Len(LineTokens(conn[i].req)) # 3) =>
            /\ ~conn[i].touched /\ conn[i].opened = {}
            /\ Len(conn[i].wire) >= 1
            /\ conn[i].wire[1].part = "head" /\ conn[i].wire[1].code = 400

\* Connection i's handler returned after recv gave it no byte.
EmptyAbort(i) == conn[i].pc = "done" /\ conn[i].req = <<>> /\ ~conn[i].rfail

\* C8: in both servers a connection on which recv returned zero bytes has
\* nothing sent on it and is closed, no exception leaves its handler, and the
\* accept loop is not ended by it: it is back at accept once the handler of
\* the latest connection has returned that way.
C8_EmptyRequestSilent ==
    \A i \in Conns :
        EmptyAbort(i) =>
            /\ conn[i].wire = <<>>
            /\ conn[i].sock = "closed"
            /\ conn[i].exc = ""
            /\ (\A j \in Conns : j > i => conn[j].pc = "new") =>
                   /\ acceptor \in {"accept", "accept_error"}
                   /\ (acceptor = "accept" /\ i < MaxConn) => ENABLED Accept(i + 1)

\* C8 witness: the single-threaded server closed a connection that sent
\* nothing and then served the next one its 200 response.
C8_Witness ==
    /\ variant = "st"
    /\ EmptyAbort(1) /\ conn[1].wire = <<>> /\ conn[1].sock = "closed"
    /\ conn[2].pc = "done" /\ Len(conn[2].wire) = 2
    /\ conn[2].wire[1].code = 200 /\ conn[2].wire[1].ok /\ conn[2].wire[2].ok

\* C9: in the multithreaded server a GET whose path the resolver rejects, or
\* which names no regular file, or whose file cannot be read when it is
\* opened, has 404 as the status of the first response sent for it.
C9_UnservableGets404 ==
    \A i \in Conns :
        (Mt(i) /\ conn[i].miss # "" /\ Len(conn[i].wire) >= 1) =>
            conn[i].wire[1].part = "head" /\ conn[i].wire[1].code = 404

\* Header block hs has the three mandatory headers and announces n bytes.
Announces(hs, n) ==
    /\ Header(hs, "Content-Type") # {}
    /\ Header(hs, "Connection") = {"close"}
    /\ Header(hs, "Content-Length") = {n}

\* C10: in both servers every header block handed to sendall has
\* Content-Type, Content-Length and Connection: close, and its Content-Length
\* is the number of bytes of the body of that response: the body still to be
\* sent, or the one sent after it.
C10_HeadersAndLength ==
    \A i \in Conns :
        /\ conn[i].pc \in {"head", "ehead", "xhead", "body", "ebody", "xbody"} =>
               Announces(conn[i].out.headers, Len(conn[i].out.body))
        /\ \A k \in DOMAIN conn[i].wire :
               conn[i].wire[k].part = "head" =>
                   /\ Header(conn[i].wire[k].headers, "Content-Type") # {}
                   /\ Header(conn[i].wire[k].headers, "Connection") = {"close"}
                   /\ Cardinality(Header(conn[i].wire[k].headers, "Content-Length")) = 1
                   /\ (k < Len(conn[i].wire) /\ conn[i].wire[k + 1].part = "body") =>
                          Announces(conn[i].wire[k].headers, Len(conn[i].wire[k + 1].data))

\* C10 witness: a complete 200 response whose body has a byte that is not
\* text, and a complete error response.
C10_Witness ==
    /\ conn[1].pc = "done" /\ Len(conn[1].wire) = 2
    /\ conn[1].wire[1].ok /\ conn[1].wire[2].ok
    /\ conn[1].wire[1].code = 200
    /\ \E k \in DOMAIN conn[1].wire[2].data : conn[1].wire[2].data[k] = BAD
    /\ Announces(conn[1].wire[1].headers, Len(conn[1].wire[2].data))

\* The handlers of the multithreaded server that are blocked in recv, in the
\* file read or in a sendall.
Blocked == { i \in Conns : conn[i].pc \notin {"new", "done"} }

\* C11: in the multithreaded server the accept loop is never at a handler:
\* unless accept itself raised it is at accept, and the next connection can
\* be accepted whatever the handlers of the earlier ones are doing.
C11_AcceptNeverWaits ==
    (variant = "mt" /\ acceptor # "accept_error") =>
        /\ acceptor = "accept"
        /\ \A i \in Conns :
               (conn[i].pc = "new" /\ \A j \in 1..(i - 1) : conn[j].pc # "new") =>
                   ENABLED Accept(i)

\* C11 witness: a connection is accepted while the handlers of all the
\* earlier ones are still blocked, the first of them in recv.
C11_Witness ==
    /\ variant = "mt"
    /\ acceptor = "accept"
    /\ conn[1].pc = "recv"
    /\ conn[MaxConn].pc = "recv"
    /\ Blocked = Conns

\* C12: in the multithreaded server an error raised by accept, or by starting
\* the handler thread, does not end the accept loop: the loop is at accept
\* in every state.
C12_AcceptErrorNotFatal ==
    variant = "mt" => acceptor = "accept"

\* The file of the served directory a request asks for by its plain name:
\* "GET /name HTTP/1.1" asks for the file called name in the root.
Named(req) ==
    LET t == LineTokens(req)
    IN  IF Len(t) = 3 /\ t[1] = GET /\ Len(t[2]) >= 2 /\ t[2][1] = "/"
        THEN { n \in DOMAIN FileData : n = RootDir \o <<Drop(t[2], 1)>> }
        ELSE {}

\* Named for each input, computed once.
NamedFile == Table([r \in Inputs |-> Named(r)])

\* No recv and no sendall of connection i raised.
NoTransportFailure(i) == ~conn[i].rfail /\ FailedSends(i) = {}

\* C13: in the multithreaded server, whatever the other handlers do, a
\* connection that asks for a file of the root which exists and is readable
\* is sent, transport failures apart, one 200 response whose body is the
\* content of that very file and whose Content-Length is its length.
C13_NoCrossTalk ==
    \A i \in Conns :
        \A n \in NamedFile[conn[i].req] :
            (Mt(i) /\ NoTransportFailure(i) /\ n \notin Unreadable /\ n \notin removed) =>
                /\ conn[i].pc \in {"head", "body"} =>
                       /\ conn[i].opened = {n}
                       /\ conn[i].out.code = 200
                       /\ conn[i].out.body = FileData[n]
                       /\ Header(conn[i].out.headers, "Content-Length") = {Len(FileData[n])}
                /\ conn[i].pc = "done" =>
                       /\ conn[i].opened = {n}
                       /\ Len(conn[i].wire) = 2
                       /\ conn[i].wire[1].part = "head" /\ conn[i].wire[1].code = 200
                       /\ Header(conn[i].wire[1].headers, "Content-Length") = {Len(FileData[n])}
                       /\ conn[i].wire[2].part = "body"
                       /\ conn[i].wire[2].data = FileData[n]

\* C13 witness: two connections asked for two different files and each got
\* the content of its own.
C13_Witness ==
    /\ variant = "mt"
    /\ \E n1 \in NamedFile[conn[1].req], n2 \in NamedFile[conn[2].req] :
          /\ n1 # n2
          /\ conn[1].pc = "done" /\ conn[2].pc = "done"
          /\ NoTransportFailure(1) /\ NoTransportFailure(2)
          /\ Len(conn[1].wire) = 2 /\ conn[1].wire[2].data = FileData[n1]
          /\ Len(conn[2].wire) = 2 /\ conn[2].wire[2].data = FileData[n2]
          /\ FileData[n1] # FileData[n2]

\* Connection i was sent a complete 200 response.
Served(i) ==
    /\ Len(conn[i].wire) = 2
    /\ conn[i].wire[1].part = "head" /\ conn[i].wire[1].code = 200 /\ conn[i].wire[1].ok
    /\ conn[i].wire[2].part = "body" /\ conn[i].wire[2].ok

\* C14: in both servers the body of a 200 response is, byte for byte, the
\* content of the file it was read from, and its Content-Length is the size
\* of that file.
C14_BodyIsFileBytes ==
    \A i \in Conns :
        Served(i) =>
            \A n \in conn[i].opened :
                /\ conn[i].wire[2].data = FileData[n]
                /\ Header(conn[i].wire[1].headers, "Content-Length") = {Len(FileData[n])}

\* Header block hs without the value of its Date header.
Undated(hs) == [k \in DOMAIN hs |-> IF hs[k][1] = "Date" THEN <<"Date">> ELSE hs[k]]

\* What was sent on connection i, the values of the Date headers apart.
Transcript(i) ==
    [k \in DOMAIN conn[i].wire |->
        [part |-> conn[i].wire[k].part, code |-> conn[i].wire[k].code,
         headers |-> Undated(conn[i].wire[k].headers), data |-> conn[i].wire[k].data]]

\* Connections i and j of the multithreaded server received the same request
\* and were handled to the end without transport failure, no file having
\* been unlinked.
SameRequest(i, j) ==
    /\ i # j /\ Mt(i) /\ Mt(j)
    /\ conn[i].pc = "done" /\ conn[j].pc = "done"
    /\ NoTransportFailure(i) /\ NoTransportFailure(j)
    /\ conn[i].req = conn[j].req
    /\ removed = {}

\* C15: in the multithreaded server two connections that send the same
\* request while the file system stays as it is are sent the same status,
\* the same headers in the same order (the Date value apart) and the same body.
C15_SameRequestSameResponse ==
    \A i, j \in Conns : SameRequest(i, j) => Transcript(i) = Transcript(j)

\* C15 witness: the same GET on two connections, each answered with a
\* complete 200 response carrying its own Date.
C15_Witness ==
    /\ SameRequest(1, 2)
    /\ NamedFile[conn[1].req] # {}
    /\ Served(1) /\ Served(2)
    /\ Header(conn[1].wire[1].headers, "Date") # Header(conn[2].wire[1].headers, "Date")

\* C16: in the multithreaded server safe_path substitutes the default
\* document exactly when the path, its query dropped and its escapes
\* decoded, is empty after the removal of one leading separator: such a path
\* resolves to the default document, and a path that is then neither empty
\* nor the name of the default document does not.
C16_DefaultDocOnlyWhenEmpty ==
    \A i \in Conns :
        (Mt(i) /\ conn[i].touched) =>
            LET p == LineTokens(conn[i].req)[2]
                raw == unquote(SplitChar(p, "?")[1])
                one == IF raw # <<>> /\ raw[1] = "/" THEN Tail(raw) ELSE raw
                doc == PathJoin(WEB_ROOT, DefaultDoc)
            IN  /\ one = <<>> => safe_path(p) = doc
                /\ safe_path(p) = doc => one \in {<<>>, DefaultDoc}

\* The handlers of the single-threaded server.
St(i) == variant = "st" /\ conn[i].pc # "new"

\* C17: in the single-threaded server the file read for a response is never
\* outside the served directory.
C17_StServedInsideRoot ==
    \A i \in Conns : St(i) => \A n \in conn[i].opened : InsideRoot(n)

\* C18: in the single-threaded server no handler outcome ends the accept
\* loop: no exception leaves the loop body, and every connection whose
\* handler is over is closed.
C18_StLoopSurvives ==
    variant = "st" =>
        /\ acceptor # "handler_error"
        /\ \A i \in Conns :
               /\ conn[i].exc = ""
               /\ conn[i].pc = "done" => conn[i].sock = "closed"

\* The tokens of the request line as the single-threaded server splits it.
StLineTokens(req) == SplitWS(FirstSplitLine(DecodeIgnore(req)))

\* C19: in the single-threaded server a file is read and a 200 response
\* built or sent only for a request line of exactly three tokens whose
\* method is GET.
C19_StServesOnlyGet ==
    \A i \in Conns :
        (St(i) /\ (conn[i].opened # {}
                     \/ conn[i].out.code = 200
                     \/ \E k \in DOMAIN conn[i].wire : conn[i].wire[k].code = 200)) =>
            /\ Len(StLineTokens(conn[i].req)) = 3
            /\ StLineTokens(conn[i].req)[1] = GET

====
